---- MODULE Spec2Model ----
(***************************************************************************)
(* yall: run a package-manager command in many folders.                    *)
(*                                                                         *)
(* The model covers the task queue (utils.ts, queue), the run coordinator  *)
(* (runOne, spawnRun, failFastExit, parseCacheDirFromError) and runAll     *)
(* with its sequential retry pass and its lock file.                       *)
(*                                                                         *)
(* JavaScript runs handlers to completion: an I/O completion (a manifest   *)
(* read, a process exit, a removal) is a macrotask and is taken only when  *)
(* no promise reaction is pending; promise reactions are kept in the FIFO  *)
(* microtasks.                                                             *)
(*                                                                         *)
(* Texts (stderr, error messages, paths) are sequences of tokens:          *)
(*   "CF"  the configured cache folder path     "/"  the path separator    *)
(*   "a"   a path segment                       " "  a blank               *)
(*   "ESC" an ANSI escape sequence              "BadHash" the text         *)
(*   'error Bad hash. '                         other tokens: other text   *)
(***************************************************************************)
EXTENDS Integers, Sequences, FiniteSets, TLC

\* Longest folder list handed to runAll.
MaxItems == 3
\* Largest configured concurrency.
MaxConcurrency == 2
\* Last value of the clock.
MaxTime == 2
\* Most modifications of watched files, from outside or by a package manager.
MaxWrites == 2
\* Most restarts of the watching process.
MaxRestarts == 1
\* Most getFoldersToRun calls followed in one process.
MaxCalls == 2
\* Longest error text given to the cache recovery, in tokens.
MaxText == 3

VARIABLES
    options,      \* YallOptions of this runAll call
    folders,      \* the list getFoldersToRun resolved to
    stderrText,   \* what the package manager writes to stderr when it fails
    proc,         \* the node process: "running", "exit0", "exit1", "crashed"
    phase,        \* position of runAll
    items,        \* queue: items not yet handed to the producer
    total,        \* queue: items.length at the call
    concurrency,  \* queue: the clamped concurrency
    results,      \* queue: results pushed so far
    queueState,   \* queue's promise: "none", "pending", "resolved"
    calls,        \* every runOne invocation, in start order
    settleOrder,  \* indices of calls, in the order their promises resolved
    microtasks,   \* pending promise reactions, FIFO
    idx,          \* runAll: index of the result the for-of loop is at
    fails,        \* runAll: fails
    removals,     \* runAll: remove(cacheErrorDir) calls issued, in order
    lockFiles,    \* lock files present on disk
    returned,     \* value runAll resolved to (<<>> before)
    marked,       \* file tree: the folders that hold package.json and yarn.lock
    workspaces,   \* the workspaces field of the root package.json
    firstRun,     \* module variable firstRun
    discovered,   \* every getFoldersToRun call of the process, in order
    statFails,    \* file tree: the paths on which fs.stat fails
    readdirFails, \* file tree: the directories on which fs.readdir fails
    runCommand,   \* the command runAll was called with ("" when none)
    command,      \* parameter command of the first pass's runOne(command, options)
    manifests,    \* per folder, the dependencies its package.json declares
    spawned,      \* the package-manager commands composed so far, in order
    disk,         \* per folder, the content hash of its watched file ("" unreadable)
    dirty,        \* folders whose watched file changed and whose listener is due
    watchedFilesHashes, \* watchAll: last hash stored per watched file ("" none)
    watchedFiles, \* watchAll: the files with a registered listener
    changedFolders, \* watchAll: changedFolders
    watchLock,    \* module variable watchLock: per folder, time of its last run (0 none)
    cachedHashes, \* hash files persisted on disk, per watched file ("" none)
    now,          \* the clock, in units of the debounce window
    wphase,       \* position of watchAll's polling loop
    run,          \* the coordinated run in progress
    lastRun,      \* per folder, what happened last: its run's outcome, or "modified"
    writes,       \* modifications of watched files so far
    restarts,     \* restarts of the watching process so far
    listeners,    \* fs: per watched file, the listeners fs.watchFile registered
    tasks         \* watchAll: per activity of the polling loop, how many are pending

\* What folder discovery reads and writes.
fsVars == <<marked, workspaces, firstRun, discovered, statFails, readdirFails>>

\* What the composition of the package-manager command reads and writes.
cmdVars == <<runCommand, command, manifests, spawned>>

\* runOne has composed no command.
CommandIdle ==
    /\ runCommand = ""
    /\ command = ""
    /\ manifests = <<>>
    /\ spawned = <<>>

\* What watch mode reads and writes.
watchVars == <<disk, dirty, watchedFilesHashes, watchedFiles, changedFolders,
               watchLock, cachedHashes, now, wphase, run, lastRun, writes,
               restarts, listeners, tasks>>

\* watchAll was not called.
WatchIdle ==
    /\ disk = <<>>
    /\ dirty = {}
    /\ watchedFilesHashes = <<>>
    /\ watchedFiles = {}
    /\ changedFolders = <<>>
    /\ watchLock = <<>>
    /\ cachedHashes = <<>>
    /\ now = 1
    /\ wphase = "off"
    /\ run = <<>>
    /\ lastRun = <<>>
    /\ writes = 0
    /\ restarts = 0
    /\ listeners = <<>>
    /\ tasks = <<>>

vars == <<options, folders, stderrText, proc, phase, items, total, concurrency,
          results, queueState, calls, settleOrder, microtasks, idx, fails,
          removals, lockFiles, returned, marked, workspaces, firstRun,
          discovered, statFails, readdirFails, runCommand, command, manifests,
          spawned, disk, dirty, watchedFilesHashes, watchedFiles, changedFolders,
          watchLock, cachedHashes, now, wphase, run, lastRun, writes, restarts,
          listeners, tasks>>

----------------------------------------------------------------------------
(* Values *)

Min(a, b) == IF a < b THEN a ELSE b

\* An error text '' and a missing error are both falsy; both are <<>>.
NoText == <<>>
\* The value of a function that returned undefined.
Undefined == <<"undefined">>

\* RunResult {folder, code?, error?}; code is "undefined" (absent), "0" or "1"
\* (any non-zero exit code).
RunResult(folder, code, error) == [folder |-> folder, code |-> code, error |-> error]
NoResult == RunResult(0, "undefined", NoText)

stripAnsi(str) == SelectSeq(str, LAMBDA t : t # "ESC")

\* path.sep
sep == "/"

RECURSIVE segments(_, _, _)
\* The names of a path, split at the separators; done are the names
\* completed, name is the one being read.
segments(path, done, name) ==
    IF path = <<>> THEN Append(done, name)
    ELSE IF Head(path) = sep THEN segments(Tail(path), Append(done, name), <<>>)
    ELSE segments(Tail(path), done, Append(name, Head(path)))

RECURSIVE resolveDots(_, _)
\* path.normalize on the names: '' and '.' are dropped, '..' takes the name
\* before it away, and stays when there is none.
resolveDots(names, kept) ==
    IF names = <<>> THEN kept
    ELSE LET n == Head(names) IN
         IF n = <<>> \/ n = <<".">> THEN resolveDots(Tail(names), kept)
         ELSE IF n = <<"..">> /\ kept # <<>> /\ kept[Len(kept)] # <<"..">>
         THEN resolveDots(Tail(names), SubSeq(kept, 1, Len(kept) - 1))
         ELSE resolveDots(Tail(names), Append(kept, n))

RECURSIVE joinNames(_)
joinNames(names) ==
    IF names = <<>> THEN <<>>
    ELSE IF Len(names) = 1 THEN names[1]
    ELSE names[1] \o <<sep>> \o joinNames(Tail(names))

\* path.normalize of a relative path: '.' when nothing is left.
normalize(path) ==
    LET names == resolveDots(segments(path, <<>>, <<>>), <<>>) IN
    IF names = <<>> THEN <<".">> ELSE joinNames(names)

\* path.join of two texts, normalised: join('.', 'a') is 'a', join('a', '..')
\* is '.'.
join(dir, sub) ==
    LET joined == IF dir = <<>> \/ dir = <<".">> THEN sub
                  ELSE IF dir[Len(dir)] = sep THEN dir \o sub
                  ELSE dir \o <<sep>> \o sub
    IN IF \E i \in 1..Len(joined) : joined[i] \in {".", ".."}
       THEN normalize(joined) ELSE joined

----------------------------------------------------------------------------
(* parseCacheDirFromError *)

\* Characters the capture group [^sep "]* stops at.
StopChars == {"/", " ", "\""}

\* Positions where `cacheFolder sep` matches.
MatchStarts(error, cacheFolder) ==
    { i \in 1..Len(error) :
        /\ i + Len(cacheFolder) <= Len(error)
        /\ SubSeq(error, i, i + Len(cacheFolder) - 1) = cacheFolder
        /\ error[i + Len(cacheFolder)] = "/" }

\* The greedy capture [^sep "]* from position from.
RECURSIVE Capture(_, _)
Capture(error, from) ==
    IF from > Len(error) \/ error[from] \in StopChars
    THEN <<>>
    ELSE <<error[from]>> \o Capture(error, from + 1)

parseCacheDirFromError_NoMatch(error, cacheFolder) == Undefined

parseCacheDirFromError(error, cacheFolder) ==
    LET starts == MatchStarts(error, cacheFolder) IN
    IF starts # {}
    THEN LET i == CHOOSE m \in starts : \A n \in starts : m <= n
             group == Capture(error, i + Len(cacheFolder) + 1)
         IN IF group # <<>> THEN join(cacheFolder, group) ELSE group
    ELSE IF \E i \in 1..Len(error) : error[i] = "BadHash"
         THEN <<>>
         ELSE Undefined

Truthy(text) == text # NoText /\ text # Undefined

----------------------------------------------------------------------------
(* Inputs *)

\* Folder lists: 1..n, and shorter lists whose last folder repeats folder 1
\* (watch mode and --folders can hand runAll a folder twice).
FolderLists ==
    { [i \in 1..n |-> i] : n \in 0..MaxItems } \cup
    { [i \in 1..n |-> IF i = n THEN 1 ELSE i] : n \in 2..(MaxItems - 1) }

CacheFolder == <<"CF">>

\* stderr of a failing package manager.
Stderrs ==
    { <<>>,
      <<"x", "CF", "/", "ESC", "a", "/", "b", " ">>,
      <<"CF", "/", " ", "CF", "/", "a">> }

Options ==
    [ concurrency : 1..MaxConcurrency,
      failFast : BOOLEAN,
      noExitOnError : BOOLEAN,
      cacheFolder : {CacheFolder},
      lock : {"undefined", ""},
      cwd : {"."} ]

Init ==
    /\ options \in Options
    /\ folders \in FolderLists
    /\ stderrText \in Stderrs
    /\ proc = "running"
    /\ phase = "start"
    /\ items = <<>>
    /\ total = 0
    /\ concurrency = 0
    /\ results = <<>>
    /\ queueState = "none"
    /\ calls = <<>>
    /\ settleOrder = <<>>
    /\ microtasks = <<>>
    /\ idx = 0
    /\ fails = <<>>
    /\ removals = <<>>
    /\ lockFiles = {}
    /\ returned = <<>>
    /\ marked = {}
    /\ workspaces = <<>>
    /\ firstRun = TRUE
    /\ discovered = <<>>
    /\ statFails = {}
    /\ readdirFails = {}
    /\ CommandIdle
    /\ WatchIdle

----------------------------------------------------------------------------
(* utils.ts: queue *)

\* Array.prototype.shift: undefined (folder 0) on an empty list.
shift_Peek(list) ==
    IF list = <<>> THEN [value |-> 0, rest |-> list]
    ELSE [value |-> Head(list), rest |-> list]

shift(list) ==
    IF list = <<>> THEN [value |-> 0, rest |-> list]
    ELSE [value |-> Head(list), rest |-> Tail(list)]

\* runOne(command, options)(folder): the invocation, up to its first await
\* (readManifest). item is the position of the folder in the list (first
\* pass) or of the result being retried (retry).
runOne(folder, pass, item) ==
    [folder |-> folder, pass |-> pass, item |-> item, st |-> "reading",
     result |-> NoResult]

\* next(): hands the next item to the producer.
next(its, cs) ==
    LET s == shift(its) IN
    [items |-> s.rest,
     calls |-> Append(cs, runOne(s.value, "first", total' - Len(its) + 1))]

RECURSIVE forEachNext(_, _, _)
forEachNext(n, its, cs) ==
    IF n <= 0 THEN [items |-> its, calls |-> cs]
    ELSE LET q == next(its, cs) IN forEachNext(n - 1, q.items, q.calls)

ClampConcurrency_None(c, n) == c

ClampConcurrency(c, n) == Min(c, n)

push_Unshift(list, x) == <<x>> \o list

push(list, x) == Append(list, x)

hasItems_Never(its) == FALSE

\* else if (items.length)
hasItems(its) == Len(its) > 0

QueueComplete_NoItemsLeft(len, tot, left) == left = 0

\* results.length === total
QueueComplete(len, tot, left) == len = tot

\* A promise reaction is run only by the running process; an I/O completion
\* only when no reaction is pending.
Running == proc = "running"
Idle == Running /\ microtasks = <<>>

InFlight(c) == c.st \in {"reading", "running", "stuck"}
Active(c) == c.st \in {"reading", "running"}

\* resolve(result) of the promise of call k: its reaction is queued.
Resolve(k, result) ==
    /\ calls' = [calls EXCEPT ![k].st = "settled", ![k].result = result]
    /\ settleOrder' = Append(settleOrder, k)
    /\ microtasks' = Append(microtasks,
           [cb |-> IF calls[k].pass = "first" THEN "queueThen" ELSE "retryThen",
            call |-> k])

----------------------------------------------------------------------------
(* runAll, up to the queue *)

defaultLockfile == ".yall.lock"

getLockFileName_Never(opts) == ""

\* typeof options.lock === 'string' ? options.lock || defaultLockfile : ''
getLockFileName(opts) ==
    IF opts.lock # "undefined"
    THEN (IF opts.lock # "" THEN opts.lock ELSE defaultLockfile)
    ELSE ""

\* writeLockFile: writeFile(join(cwd, runLockfile))
WriteLockFile ==
    /\ Idle /\ phase = "start"
    /\ lockFiles' = IF getLockFileName(options) # ""
                    THEN lockFiles \cup {<<options.cwd, getLockFileName(options)>>}
                    ELSE lockFiles
    /\ phase' = "locked"
    /\ UNCHANGED fsVars
    /\ UNCHANGED cmdVars
    /\ UNCHANGED watchVars
    /\ UNCHANGED <<options, folders, stderrText, proc, items, total, concurrency,
                   results, queueState, calls, settleOrder, microtasks, idx,
                   fails, removals, returned>>

\* queue(folders, runOne(command, options), options.concurrency)
QueueStart ==
    /\ Idle /\ phase = "locked"
    /\ concurrency' = ClampConcurrency(options.concurrency, Len(folders))
    /\ total' = Len(folders)
    /\ results' = <<>>
    /\ LET q == forEachNext(concurrency', folders, calls) IN
         /\ items' = q.items
         /\ calls' = q.calls
    /\ queueState' = "pending"
    /\ phase' = "queue"
    /\ UNCHANGED fsVars
    /\ UNCHANGED cmdVars
    /\ UNCHANGED watchVars
    /\ UNCHANGED <<options, folders, stderrText, proc, settleOrder, microtasks, idx,
                   fails, removals, lockFiles, returned>>

----------------------------------------------------------------------------
(* runOne *)

\* readManifest rejects (package.json cannot be read): the catch resolves
\* {error, folder}.
ReadManifestFails(k) ==
    /\ Idle /\ k \in 1..Len(calls) /\ calls[k].st = "reading"
    /\ Resolve(k, RunResult(calls[k].folder, "undefined", <<"ENOENT">>))
    /\ UNCHANGED fsVars
    /\ UNCHANGED cmdVars
    /\ UNCHANGED watchVars
    /\ UNCHANGED <<options, folders, stderrText, proc, phase, items, total,
                   concurrency, results, queueState, idx, fails, removals,
                   lockFiles, returned>>

\* package.json is read but is not JSON: JSON.parse throws inside the
\* fs.readFile callback, outside every promise: an uncaught exception.
ReadManifestThrows(k) ==
    /\ Idle /\ k \in 1..Len(calls) /\ calls[k].st = "reading"
    /\ proc' = "crashed"
    /\ calls' = [calls EXCEPT ![k].st = "threw"]
    /\ UNCHANGED fsVars
    /\ UNCHANGED cmdVars
    /\ UNCHANGED watchVars
    /\ UNCHANGED <<options, folders, stderrText, phase, items, total, concurrency,
                   results, queueState, settleOrder, microtasks, idx, fails,
                   removals, lockFiles, returned>>

\* A step between the manifest and the spawn rejects (remove of the modules
\* folder, getCacheDir, ensureDir): the async executor's promise rejects and
\* nothing handles it. The RunResult promise stays pending; a node that ends
\* on unhandled rejections ends.
PrepareRejects(k) ==
    /\ Idle /\ k \in 1..Len(calls) /\ calls[k].st = "reading"
    /\ calls' = [calls EXCEPT ![k].st = "stuck"]
    /\ proc' \in {"running", "crashed"}
    /\ UNCHANGED fsVars
    /\ UNCHANGED cmdVars
    /\ UNCHANGED watchVars
    /\ UNCHANGED <<options, folders, stderrText, phase, items, total, concurrency,
                   results, queueState, settleOrder, microtasks, idx, fails,
                   removals, lockFiles, returned>>

\* The manifest is read and spawnRun starts the package manager.
Spawn(k) ==
    /\ Idle /\ k \in 1..Len(calls) /\ calls[k].st = "reading"
    /\ calls' = [calls EXCEPT ![k].st = "running"]
    /\ UNCHANGED fsVars
    /\ UNCHANGED cmdVars
    /\ UNCHANGED watchVars
    /\ UNCHANGED <<options, folders, stderrText, proc, phase, items, total,
                   concurrency, results, queueState, settleOrder, microtasks, idx,
                   fails, removals, lockFiles, returned>>

\* child.on('error'): resolve({folder, error: stripAnsi(error.message)})
spawnError(folder) == RunResult(folder, "undefined", stripAnsi(<<"ESC", "spawn">>))

\* child.on('exit'): resolve({folder, error: code ? stripAnsi(stderr) : '', code})
spawnExit_Raw(folder, code, stderr) ==
    RunResult(folder, code, IF code = "1" THEN stderr ELSE NoText)

spawnExit(folder, code, stderr) ==
    RunResult(folder, code, IF code = "1" THEN stripAnsi(stderr) ELSE NoText)

\* options.failFast && failFastExit(1), in the branches of runOne that reach it
failFastExit(result) ==
    IF result.code = "1" THEN options.failFast
    ELSE IF result.error # NoText THEN options.failFast
    ELSE FALSE

\* spawnRun(...).then: fail fast, or resolve(result)
SpawnRunThen(k, result) ==
    IF failFastExit(result)
    THEN /\ proc' = "exit1"
         /\ calls' = [calls EXCEPT ![k].result = result]
         /\ UNCHANGED <<settleOrder, microtasks>>
    ELSE /\ Resolve(k, result)
         /\ UNCHANGED proc

SpawnError(k) ==
    /\ Idle /\ k \in 1..Len(calls) /\ calls[k].st = "running"
    /\ SpawnRunThen(k, spawnError(calls[k].folder))
    /\ UNCHANGED fsVars
    /\ UNCHANGED cmdVars
    /\ UNCHANGED watchVars
    /\ UNCHANGED <<options, folders, stderrText, phase, items, total, concurrency,
                   results, queueState, idx, fails, removals, lockFiles, returned>>

ProcessExit(k, code) ==
    /\ Idle /\ k \in 1..Len(calls) /\ calls[k].st = "running"
    /\ SpawnRunThen(k, spawnExit(calls[k].folder, code, stderrText))
    /\ UNCHANGED fsVars
    /\ UNCHANGED cmdVars
    /\ UNCHANGED watchVars
    /\ UNCHANGED <<options, folders, stderrText, phase, items, total, concurrency,
                   results, queueState, idx, fails, removals, lockFiles, returned>>

----------------------------------------------------------------------------
(* queue: the reaction to a settled producer call *)

QueueThen ==
    /\ Running /\ microtasks # <<>> /\ Head(microtasks).cb = "queueThen"
    /\ LET k == Head(microtasks).call
           pushed == push(results, calls[k].result)
       IN
       /\ results' = pushed
       /\ UNCHANGED total
       /\ IF QueueComplete(Len(pushed), total, Len(items))
          THEN /\ queueState' = "resolved"
               /\ microtasks' = Tail(microtasks) \o
                     (IF queueState = "pending"
                      THEN <<[cb |-> "aggregate", call |-> 0]>> ELSE <<>>)
               /\ UNCHANGED <<items, calls>>
          ELSE IF hasItems(items)
          THEN LET q == next(items, calls) IN
               /\ items' = q.items
               /\ calls' = q.calls
               /\ microtasks' = Tail(microtasks)
               /\ UNCHANGED queueState
          ELSE /\ microtasks' = Tail(microtasks)
               /\ UNCHANGED <<items, calls, queueState>>
    /\ UNCHANGED fsVars
    /\ UNCHANGED cmdVars
    /\ UNCHANGED watchVars
    /\ UNCHANGED <<options, folders, stderrText, proc, phase, concurrency,
                   settleOrder, idx, fails, removals, lockFiles, returned>>

----------------------------------------------------------------------------
(* runAll: aggregation and the sequential retry *)

isFailed_CodeOnly(r) == r.code = "1"

isFailed_Always(r) == TRUE

\* r.error || r.code
isFailed(r) == r.error # NoText \/ r.code = "1"

\* .then(async (results) => { const fails = []; for (let r of results) ...
Aggregate ==
    /\ Running /\ microtasks # <<>> /\ Head(microtasks).cb = "aggregate"
    /\ microtasks' = Tail(microtasks)
    /\ fails' = <<>>
    /\ idx' = 1
    /\ phase' = "loop"
    /\ UNCHANGED fsVars
    /\ UNCHANGED cmdVars
    /\ UNCHANGED watchVars
    /\ UNCHANGED <<options, folders, stderrText, proc, items, total, concurrency,
                   results, queueState, calls, settleOrder, removals, lockFiles,
                   returned>>

cacheErrorDir(r) ==
    IF r.error # NoText
    THEN parseCacheDirFromError(r.error, options.cacheFolder)
    ELSE Undefined

\* if (isFailed(r)) r = await runOne(command, options)(r.folder)
\* isFailed(r) && fails.push(r)
RetryOrNext(r) ==
    IF isFailed(r)
    THEN /\ calls' = Append(calls, runOne(r.folder, "retry", idx))
         /\ phase' = "retrying"
         /\ UNCHANGED idx
    ELSE /\ idx' = idx + 1
         /\ phase' = "loop"
         /\ UNCHANGED calls

\* One iteration of the for-of loop, up to its first await.
LoopStep ==
    /\ Idle /\ phase = "loop" /\ idx <= Len(results)
    /\ LET r == results[idx] IN
       IF Truthy(cacheErrorDir(r))
       THEN /\ removals' = Append(removals,
                  [dir |-> cacheErrorDir(r), idx |-> idx, state |-> "pending",
                   calls |-> Len(calls)])
            /\ phase' = "removing"
            /\ UNCHANGED <<calls, idx>>
       ELSE /\ RetryOrNext(r)
            /\ UNCHANGED removals
    /\ UNCHANGED fsVars
    /\ UNCHANGED cmdVars
    /\ UNCHANGED watchVars
    /\ UNCHANGED <<options, folders, stderrText, proc, items, total, concurrency,
                   results, queueState, settleOrder, microtasks, fails, lockFiles,
                   returned>>

removeSettled_Uncaught(ok) == ok

\* try { await remove(cacheErrorDir) } catch (e) { log.error(...) }: the loop
\* body goes on whether the removal was done or failed.
removeSettled(ok) == TRUE

\* await remove(cacheErrorDir) ends: done, or failed and logged. A rejection
\* that left the loop body would reject the aggregation callback.
RemoveDone(ok) ==
    /\ Idle /\ phase = "removing"
    /\ removals' = [removals EXCEPT ![Len(removals)].state =
                        IF ok THEN "removed" ELSE "failed"]
    /\ IF removeSettled(ok)
       THEN RetryOrNext(results[idx])
       ELSE /\ phase' = "rejected"
            /\ UNCHANGED <<calls, idx>>
    /\ UNCHANGED fsVars
    /\ UNCHANGED cmdVars
    /\ UNCHANGED watchVars
    /\ UNCHANGED <<options, folders, stderrText, proc, items, total, concurrency,
                   results, queueState, settleOrder, microtasks, fails, lockFiles,
                   returned>>

\* The retry resolved: isFailed(r) && fails.push(r)
RetryThen ==
    /\ Running /\ microtasks # <<>> /\ Head(microtasks).cb = "retryThen"
    /\ LET r == calls[Head(microtasks).call].result IN
       fails' = IF isFailed(r) THEN Append(fails, r) ELSE fails
    /\ microtasks' = Tail(microtasks)
    /\ idx' = idx + 1
    /\ phase' = "loop"
    /\ UNCHANGED fsVars
    /\ UNCHANGED cmdVars
    /\ UNCHANGED watchVars
    /\ UNCHANGED <<options, folders, stderrText, proc, items, total, concurrency,
                   results, queueState, calls, settleOrder, removals, lockFiles,
                   returned>>

exitOnError_IgnoresOption(fs, opts) == fs # <<>>

\* if (fails.length) { ...; if (!options.noExitOnError) process.exit(1) }
exitOnError(fs, opts) == fs # <<>> /\ ~opts.noExitOnError

\* After the loop: report, and process.exit(1) unless noExitOnError.
LoopEnd ==
    /\ Idle /\ phase = "loop" /\ idx > Len(results)
    /\ IF exitOnError(fails, options)
       THEN /\ proc' = "exit1"
            /\ UNCHANGED phase
       ELSE /\ phase' = "unlock"
            /\ UNCHANGED proc
    /\ UNCHANGED fsVars
    /\ UNCHANGED cmdVars
    /\ UNCHANGED watchVars
    /\ UNCHANGED <<options, folders, stderrText, items, total, concurrency, results,
                   queueState, calls, settleOrder, microtasks, idx, fails, removals,
                   lockFiles, returned>>

resolvedValue_Fails(res, fs) == fs

\* The aggregation callback ends with "return results": the list the queue
\* resolved with, not the list of fails.
resolvedValue(res, fs) == res

\* .then(async (results) => { await removeLockFile(options); return results })
\* removeLockFile removes runLockfile, relative to the process directory ".".
RemoveLockFile ==
    /\ Idle /\ phase = "unlock"
    /\ lockFiles' = IF getLockFileName(options) # ""
                    THEN lockFiles \ {<<".", getLockFileName(options)>>}
                    ELSE lockFiles
    /\ returned' = resolvedValue(results, fails)
    /\ phase' = "done"
    /\ UNCHANGED fsVars
    /\ UNCHANGED cmdVars
    /\ UNCHANGED watchVars
    /\ UNCHANGED <<options, folders, stderrText, proc, items, total, concurrency,
                   results, queueState, calls, settleOrder, microtasks, idx, fails,
                   removals>>

\* Nothing is left to wait for (no I/O, no child, no reaction): node ends
\* with status 0, whether or not runAll's promise was settled.
EventLoopEmpty ==
    /\ Idle /\ phase \in {"queue", "retrying", "done"}
    /\ \A k \in 1..Len(calls) : ~Active(calls[k])
    /\ proc' = "exit0"
    /\ UNCHANGED fsVars
    /\ UNCHANGED cmdVars
    /\ UNCHANGED watchVars
    /\ UNCHANGED <<options, folders, stderrText, phase, items, total, concurrency,
                   results, queueState, calls, settleOrder, microtasks, idx, fails,
                   removals, lockFiles, returned>>

Next ==
    \/ WriteLockFile
    \/ QueueStart
    \/ \E k \in 1..Len(calls) : ReadManifestFails(k)
    \/ \E k \in 1..Len(calls) : ReadManifestThrows(k)
    \/ \E k \in 1..Len(calls) : PrepareRejects(k)
    \/ \E k \in 1..Len(calls) : Spawn(k)
    \/ \E k \in 1..Len(calls) : SpawnError(k)
    \/ \E k \in 1..Len(calls), code \in {"0", "1"} : ProcessExit(k, code)
    \/ QueueThen
    \/ Aggregate
    \/ LoopStep
    \/ \E ok \in BOOLEAN : RemoveDone(ok)
    \/ RetryThen
    \/ LoopEnd
    \/ RemoveLockFile
    \/ EventLoopEmpty

Spec == Init /\ [][Next]_vars

----------------------------------------------------------------------------
(* The cache recovery over error texts *)

\* What an error text is made of: the cache folder, the separator, names
\* (also '.' and '..'), a space, and yarn's "error Bad hash." message.
TextTokens == {"CF", "/", "a", ".", "..", " ", "BadHash"}

ErrorTexts == UNION { [1..n -> TextTokens] : n \in 0..MaxText }

ParseOptions ==
    [ concurrency : {1},
      failFast : {FALSE},
      noExitOnError : BOOLEAN,
      cacheFolder : {CacheFolder},
      lock : {"undefined"},
      cwd : {"."} ]

\* runAll over no folder or one folder, whose package manager fails with
\* any of the error texts.
ParseInit ==
    /\ options \in ParseOptions
    /\ folders \in { <<>>, <<1>> }
    /\ stderrText \in ErrorTexts
    /\ proc = "running"
    /\ phase = "start"
    /\ items = <<>>
    /\ total = 0
    /\ concurrency = 0
    /\ results = <<>>
    /\ queueState = "none"
    /\ calls = <<>>
    /\ settleOrder = <<>>
    /\ microtasks = <<>>
    /\ idx = 0
    /\ fails = <<>>
    /\ removals = <<>>
    /\ lockFiles = {}
    /\ returned = <<>>
    /\ marked = {}
    /\ workspaces = <<>>
    /\ firstRun = TRUE
    /\ discovered = <<>>
    /\ statFails = {}
    /\ readdirFails = {}
    /\ CommandIdle
    /\ WatchIdle

ParseSpec == ParseInit /\ [][Next]_vars

----------------------------------------------------------------------------
(* Folder discovery: paths *)

\* A path is a text: names and separators, 'a/b' being <<"a", "/", "b">>.
\* path.basename: the last name, a trailing separator ignored.
basename(path) ==
    IF path = <<>> THEN ""
    ELSE IF path[Len(path)] = sep /\ Len(path) > 1 THEN path[Len(path) - 1]
    ELSE path[Len(path)]

\* path.dirname: '.' for a single name.
dirname(path) ==
    LET p == IF path # <<>> /\ path[Len(path)] = sep /\ Len(path) > 1
             THEN SubSeq(path, 1, Len(path) - 1) ELSE path
    IN IF Len(p) <= 2 THEN <<".">> ELSE SubSeq(p, 1, Len(p) - 2)

\* name[0] === '.'
startsWithDot(name) == name \in {".", ".h"}

\* String length of one name.
nameLength(name) ==
    CASE name = "node_modules" -> 12
      [] name = "package.json" -> 12
      [] name = "yarn.lock" -> 9
      [] name \in {"bc", ".h"} -> 2
      [] OTHER -> 1

RECURSIVE length(_)
length(path) ==
    IF path = <<>> THEN 0 ELSE nameLength(Head(path)) + length(Tail(path))

\* a.split(sep).length
splitLength(path) == Len(SelectSeq(path, LAMBDA t : t = sep)) + 1

RECURSIVE flatten(_)
flatten(lists) ==
    IF lists = <<>> THEN <<>> ELSE Head(lists) \o flatten(Tail(lists))

\* list.indexOf(x) >= 0
includes(list, x) == \E i \in 1..Len(list) : list[i] = x

----------------------------------------------------------------------------
(* Folder discovery: the file tree *)

Root == <<".">>

\* The directories under the working directory, with their sub-directories in
\* readdir order.
SubDirs ==
    (Root :> <<".h", "a", "node_modules">>) @@
    (<<"a">> :> <<"b", "bc">>) @@
    (<<"a", "/", "b">> :> <<>>) @@
    (<<"a", "/", "bc">> :> <<>>) @@
    (<<".h">> :> <<>>) @@
    (<<"node_modules">> :> <<>>)

Dirs == DOMAIN SubDirs

\* A marked folder is a package: it holds package.json and yarn.lock.
PackageFiles == <<"package.json", "yarn.lock">>

\* fs.readdir, with .catch(() => []) for what is not a directory or cannot
\* be read.
readdir(folder, mk) ==
    IF folder \in Dirs /\ folder \notin readdirFails
    THEN SubDirs[folder] \o (IF folder \in mk THEN PackageFiles ELSE <<>>)
    ELSE <<>>

isDirectory_StatErrorIsFile(folder, mk) ==
    /\ folder \notin statFails
    /\ ~(basename(folder) \in {"package.json", "yarn.lock"} /\ dirname(folder) \in mk)

\* fs.stat(folder).isDirectory(), with statErrorToDirectory when stat fails
\* (a path that does not exist, or one that cannot be examined).
isDirectory(folder, mk) ==
    \/ folder \in statFails
    \/ ~(basename(folder) \in {"package.json", "yarn.lock"} /\ dirname(folder) \in mk)

----------------------------------------------------------------------------
(* Folder discovery: findAllFolders *)

fileToLookup(opts) == IF opts.npm THEN "package.json" ELSE "yarn.lock"

\* options.modulesFolder || 'node_modules'
modulesFolder(opts) ==
    IF opts.modulesFolder # "" THEN opts.modulesFolder ELSE "node_modules"

isExcluded_DotFoldersPass(folder, opts) ==
    \/ basename(folder) = modulesFolder(opts)
    \/ includes(opts.excludeFolders, folder)

isExcluded(folder, opts) ==
    \/ basename(folder) = modulesFolder(opts)
    \/ /\ ~opts.dotFolders
       /\ startsWithDot(basename(folder))
       /\ ~includes(opts.includeFolders, folder)
    \/ includes(opts.excludeFolders, folder)

isFolderToScan(folder, opts, mk) ==
    isDirectory(folder, mk) /\ ~isExcluded(folder, opts)

RECURSIVE listFolder(_, _, _)
RECURSIVE listEntries(_, _, _, _)

\* readdir(folder).map(file => join(folder, file)).map(listFolder), flattened.
listEntries(folder, entries, opts, mk) ==
    IF entries = <<>> THEN <<>>
    ELSE listFolder(join(folder, <<Head(entries)>>), opts, mk)
         \o listEntries(folder, Tail(entries), opts, mk)

listFolder(folder, opts, mk) ==
    IF basename(folder) = fileToLookup(opts) THEN <<dirname(folder)>>
    ELSE IF folder = Root \/ isFolderToScan(folder, opts, mk)
         THEN listEntries(folder, readdir(folder, mk), opts, mk)
         ELSE <<>>

\* The comparator of sortByPath.
byPath(a, b) ==
    LET byParts == splitLength(a) - splitLength(b)
    IN IF byParts # 0 THEN byParts ELSE length(a) - length(b)

sortByPath_None(paths) == paths

\* Array.prototype.sort with that comparator; the sort is stable.
RECURSIVE sortByPath(_)
sortByPath(paths) ==
    IF paths = <<>> THEN <<>>
    ELSE LET front == sortByPath(SubSeq(paths, 1, Len(paths) - 1))
             x == paths[Len(paths)]
             n == Cardinality({ i \in 1..Len(front) : byPath(front[i], x) <= 0 })
         IN SubSeq(front, 1, n) \o <<x>> \o SubSeq(front, n + 1, Len(front))

RECURSIVE listAll(_, _, _)
\* folders.map(listFolder), flattened.
listAll(roots, opts, mk) ==
    IF roots = <<>> THEN <<>>
    ELSE listFolder(Head(roots), opts, mk) \o listAll(Tail(roots), opts, mk)

findAllFolders(roots, opts, mk) == sortByPath(listAll(roots, opts, mk))

\* minimatch(folder, pattern), for patterns of names and '*': '*' stands for
\* one name that does not start with a dot.
minimatch(folder, pattern) ==
    /\ Len(folder) = Len(pattern)
    /\ \A i \in 1..Len(folder) :
          \/ pattern[i] = folder[i]
          \/ pattern[i] = "*" /\ folder[i] # sep /\ ~startsWithDot(folder[i])

----------------------------------------------------------------------------
(* Folder discovery: getFoldersToRun *)

\* allFolders.slice(1)
slice1(list) == IF list = <<>> THEN <<>> ELSE Tail(list)

\* getFoldersToRun(options). atTest is the value of firstRun that the test
\* "if (firstRun)" reads. The value is the list resolved; scanned tells
\* whether findAllFolders was called.
getFoldersToRun(opts, atTest, mk, ws) ==
    LET roots == IF opts.folders = "undefined" THEN <<Root>> ELSE opts.folders
    IN IF opts.onlyWorkspaces
       THEN IF atTest
            THEN [value |-> <<Root>>, scanned |-> FALSE]
            ELSE LET allFolders == findAllFolders(roots, opts, mk)
                     filtered ==
                         SelectSeq(slice1(allFolders),
                                   LAMBDA folder :
                                       \E i \in 1..Len(ws) : minimatch(folder, ws[i]))
                 IN [value |-> <<Root>> \o filtered, scanned |-> TRUE]
       ELSE IF ~opts.here
            THEN [value |-> findAllFolders(roots, opts, mk), scanned |-> TRUE]
            ELSE [value |-> roots, scanned |-> FALSE]

\* One call of getFoldersToRun. With onlyWorkspaces the statement
\* "firstRun = false" comes before the test of firstRun.
GetFoldersToRun ==
    /\ Len(discovered) < MaxCalls
    /\ LET atTest == IF options.onlyWorkspaces THEN FALSE ELSE firstRun
           r == getFoldersToRun(options, atTest, marked, workspaces)
       IN /\ firstRun' = atTest
          /\ discovered' = Append(discovered, r)
          /\ folders' = r.value
    /\ UNCHANGED <<options, stderrText, proc, phase, items, total, concurrency,
                   results, queueState, calls, settleOrder, microtasks, idx,
                   fails, removals, lockFiles, returned, marked, workspaces,
                   statFails, readdirFails>>
    /\ UNCHANGED cmdVars
    /\ UNCHANGED watchVars

\* The options folder discovery reads.
RootLists ==
    { "undefined", << <<"a">> >>, << Root, <<"a">> >>, << <<"a">>, <<"a">> >>,
      << <<".h">> >> }

ExcludeLists ==
    { <<>>, << <<"a">> >>, << <<"a", "/">> >>, << <<"a", "/", "b">> >> }

IncludeLists == { <<>>, << <<".h">> >>, << <<"a", "/", "b">> >> }

WorkspaceLists == { <<>>, << <<"a", "/", "*">> >>, << <<"a">> >> }

DiscoveryOptions ==
    [ npm : BOOLEAN,
      dotFolders : BOOLEAN,
      modulesFolder : {"", "bc"},
      excludeFolders : ExcludeLists,
      includeFolders : IncludeLists,
      folders : RootLists,
      onlyWorkspaces : BOOLEAN,
      here : {FALSE} ]
    \cup
    [ npm : {FALSE},
      dotFolders : {FALSE},
      modulesFolder : {""},
      excludeFolders : {<<>>},
      includeFolders : {<<>>},
      folders : RootLists,
      onlyWorkspaces : {FALSE},
      here : {TRUE} ]

DiscoveryInit ==
    /\ options \in DiscoveryOptions
    /\ marked \in SUBSET Dirs
    /\ workspaces \in (IF options.onlyWorkspaces THEN WorkspaceLists ELSE {<<>>})
    /\ firstRun = TRUE
    /\ discovered = <<>>
    /\ statFails = {}
    /\ readdirFails = {}
    /\ CommandIdle
    /\ WatchIdle
    /\ folders = <<>>
    /\ stderrText = <<>>
    /\ proc = "running"
    /\ phase = "start"
    /\ items = <<>>
    /\ total = 0
    /\ concurrency = 0
    /\ results = <<>>
    /\ queueState = "none"
    /\ calls = <<>>
    /\ settleOrder = <<>>
    /\ microtasks = <<>>
    /\ idx = 0
    /\ fails = <<>>
    /\ removals = <<>>
    /\ lockFiles = {}
    /\ returned = <<>>

DiscoveryNext == GetFoldersToRun

DiscoverySpec == DiscoveryInit /\ [][DiscoveryNext]_vars

\* Folder discovery over a tree with entries that cannot be examined or read.
FaultyOptions ==
    [ npm : {FALSE},
      dotFolders : BOOLEAN,
      modulesFolder : {""},
      excludeFolders : { <<>>, << <<"a", "/", "b">> >> },
      includeFolders : {<<>>},
      folders : { "undefined", << <<"a">> >> },
      onlyWorkspaces : {FALSE},
      here : {FALSE} ]

FaultyInit ==
    /\ options \in FaultyOptions
    /\ marked \in SUBSET Dirs
    /\ statFails \in SUBSET {<<"a">>, <<"a", "/", "b">>, <<"a", "/", "package.json">>}
    /\ readdirFails \in SUBSET {Root, <<"a">>, <<"a", "/", "b">>}
    /\ CommandIdle
    /\ WatchIdle
    /\ workspaces = <<>>
    /\ firstRun = TRUE
    /\ discovered = <<>>
    /\ folders = <<>>
    /\ stderrText = <<>>
    /\ proc = "running"
    /\ phase = "start"
    /\ items = <<>>
    /\ total = 0
    /\ concurrency = 0
    /\ results = <<>>
    /\ queueState = "none"
    /\ calls = <<>>
    /\ settleOrder = <<>>
    /\ microtasks = <<>>
    /\ idx = 0
    /\ fails = <<>>
    /\ removals = <<>>
    /\ lockFiles = {}
    /\ returned = <<>>

FaultySpec == FaultyInit /\ [][DiscoveryNext]_vars

----------------------------------------------------------------------------
(* runOne: the command line *)

\* Resting values of the variables of runAll and of folder discovery.
RunIdle ==
    /\ stderrText = <<>>
    /\ proc = "running"
    /\ phase = "start"
    /\ items = <<>>
    /\ total = 0
    /\ concurrency = 0
    /\ results = <<>>
    /\ queueState = "none"
    /\ calls = <<>>
    /\ settleOrder = <<>>
    /\ microtasks = <<>>
    /\ idx = 0
    /\ fails = <<>>
    /\ removals = <<>>
    /\ lockFiles = {}
    /\ returned = <<>>

DiscoveryIdle ==
    /\ marked = {}
    /\ workspaces = <<>>
    /\ firstRun = TRUE
    /\ discovered = <<>>
    /\ statFails = {}
    /\ readdirFails = {}

\* getPackageLocalDeps(pkg).map(_ => _.address).join(' '): the file: and
\* link: addresses of the folder's manifest, one text.
getPackageLocalDeps(pkg, folder) ==
    IF pkg.local THEN << <<"local", folder>> >> ELSE <<>>

\* getPackageRemoteDeps(pkg).map(_ => _.address).join(' ')
getPackageRemoteDeps(pkg, folder) ==
    IF pkg.remote THEN << <<"remote", folder>> >> ELSE <<>>

\* runOne, from "const addArgs = []" to the composition of args. cmd is the
\* value of the parameter command when the folder's task gets there; the
\* test "if (!command)" is made once, before both assignments.
composeArgs(cmd, opts, pkg, folder) ==
    LET localDeps == getPackageLocalDeps(pkg, folder)
        remoteDeps == getPackageRemoteDeps(pkg, folder)
        addLocal == cmd = "" /\ opts.forceLocal /\ localDeps # <<>>
        addRemote == cmd = "" /\ opts.forceRemote /\ remoteDeps # <<>>
        cmd2 == IF addLocal \/ addRemote THEN "add" ELSE cmd
        addArgs == (IF addLocal THEN localDeps ELSE <<>>)
                   \o (IF addRemote THEN remoteDeps ELSE <<>>)
    IN [command |-> cmd2, args |-> <<cmd2>> \o addArgs]

SpawnedIn(pass) ==
    { spawned[i].folder : i \in { j \in 1..Len(spawned) : spawned[j].pass = pass } }

\* A task of the first pass has read its manifest and composes its command.
\* All tasks of the pass are calls of one function runOne(command, options):
\* the assignment command = 'add' writes the parameter they share.
ComposeFirst(f) ==
    /\ f \in (1..Len(manifests)) \ SpawnedIn("first")
    /\ LET r == composeArgs(command, options, manifests[f], f)
       IN /\ command' = r.command
          /\ spawned' = Append(spawned, [folder |-> f, pass |-> "first", args |-> r.args])
    /\ UNCHANGED <<runCommand, manifests>>
    /\ UNCHANGED fsVars
    /\ UNCHANGED watchVars
    /\ UNCHANGED <<options, folders, stderrText, proc, phase, items, total,
                   concurrency, results, queueState, calls, settleOrder,
                   microtasks, idx, fails, removals, lockFiles, returned>>

\* A retry: runAll calls runOne(command, options) anew with its own command.
ComposeRetry(f) ==
    /\ SpawnedIn("first") = 1..Len(manifests)
    /\ f \in (1..Len(manifests)) \ SpawnedIn("retry")
    /\ LET r == composeArgs(runCommand, options, manifests[f], f)
       IN spawned' = Append(spawned, [folder |-> f, pass |-> "retry", args |-> r.args])
    /\ UNCHANGED <<runCommand, command, manifests>>
    /\ UNCHANGED fsVars
    /\ UNCHANGED watchVars
    /\ UNCHANGED <<options, folders, stderrText, proc, phase, items, total,
                   concurrency, results, queueState, calls, settleOrder,
                   microtasks, idx, fails, removals, lockFiles, returned>>

Dependencies == [local : BOOLEAN, remote : BOOLEAN]

CommandInit ==
    /\ options \in [forceLocal : BOOLEAN, forceRemote : BOOLEAN]
    /\ runCommand \in {"", "install"}
    /\ command = runCommand
    /\ \E n \in 1..MaxItems :
          /\ manifests \in [1..n -> Dependencies]
          /\ folders = [i \in 1..n |-> i]
    /\ spawned = <<>>
    /\ RunIdle
    /\ DiscoveryIdle
    /\ WatchIdle

CommandNext ==
    \/ \E f \in 1..Len(manifests) : ComposeFirst(f)
    \/ \E f \in 1..Len(manifests) : ComposeRetry(f)

CommandSpec == CommandInit /\ [][CommandNext]_vars

----------------------------------------------------------------------------
(* watchAll: the collaborators *)

\* The content hashes a watched file can have.
Contents == {"h1", "h2"}

\* getFileContentHash(file): '' when the file cannot be read. With the
\* default filesToWatch the watched file of a folder is its marker file.
getFileContentHash(folder) == IF folder \in DOMAIN disk THEN disk[folder] ELSE ""

\* readFile(getWatchedFileCachedHashPath(...)).catch(() => '')
readCachedHash(folder) ==
    IF folder \in DOMAIN cachedHashes THEN cachedHashes[folder] ELSE ""

\* changedFolders.indexOf(folder) ? changedFolders.push(folder) : ''
\* indexOf is 0, the falsy value, only when the folder is the first element;
\* it is -1, a truthy value, when the folder is absent.
addToChanged(list, folder) ==
    IF list # <<>> /\ list[1] = folder THEN list ELSE Append(list, folder)

\* Math.abs(watchLock[folder] - eventTime) < 1000, the clock counting windows.
changedHappenedJustAfterRun(lock, eventTime) == lock = eventTime

\* fs.watchFile(file, listener): one more listener of the file's poll.
watchFile(count) == count + 1

\* fs.unwatchFile(file, listener): removes that listener from the file's
\* poll, and nothing when it is not one of the file's listeners. registered
\* tells whether it is.
unwatchFile(count, registered) ==
    IF registered /\ count > 0 THEN count - 1 ELSE count

\* One file of putHandlers: a file not yet watched and readable is compared
\* with its persisted hash, stored, and gets its listener.
putHandler(st, folder) ==
    LET hash == getFileContentHash(folder) IN
    IF folder \in st.watched \/ hash = "" THEN st
    ELSE [ changed |-> IF readCachedHash(folder) # hash
                       THEN addToChanged(st.changed, folder) ELSE st.changed,
           hashes |-> [st.hashes EXCEPT ![folder] = hash],
           watched |-> st.watched \cup {folder},
           listeners |-> [st.listeners EXCEPT ![folder] = watchFile(@)] ]

RECURSIVE putHandlers(_, _)
\* folders.map(...) of putHandlers, over the list getFoldersToRun returned.
putHandlers(st, list) ==
    IF list = <<>> THEN st ELSE putHandlers(putHandler(st, Head(list)), Tail(list))

sameContent_Never(content, hash, stored) == FALSE

\* content && hash === watchedFilesHashes[file]
sameContent(content, hash, stored) == content /\ hash = stored

\* The listener of fs.watchFile, for the watched file of folder. When the
\* file cannot be read it calls fs.unwatchFile(file, () => {}), with a
\* function made on the spot, which is not a listener of the file.
fileListener(st, folder, content, eventTime) ==
    LET hash == getFileContentHash(folder)
        lock == st.lock[folder]
        justAfter == lock # 0 /\ changedHappenedJustAfterRun(lock, eventTime)
        stored == IF justAfter THEN hash ELSE st.hashes[folder]
        unlocked == [st.lock EXCEPT ![folder] = 0]
    IN IF hash = ""
       THEN [ changed |-> st.changed,
              hashes |-> [st.hashes EXCEPT ![folder] = ""],
              watched |-> st.watched \ {folder},
              lock |-> st.lock,
              listeners |-> [st.listeners EXCEPT ![folder] = unwatchFile(@, FALSE)] ]
       ELSE IF sameContent(content, hash, stored)
            THEN [ changed |-> st.changed,
                   hashes |-> [st.hashes EXCEPT ![folder] = stored],
                   watched |-> st.watched,
                   lock |-> unlocked,
                   listeners |-> st.listeners ]
            ELSE [ changed |-> addToChanged(st.changed, folder),
                   hashes |-> [st.hashes EXCEPT ![folder] = hash],
                   watched |-> st.watched,
                   lock |-> unlocked,
                   listeners |-> st.listeners ]

RECURSIVE emitChange(_, _, _, _, _)
\* The poll of a file emits 'change': its n listeners run one after the other.
emitChange(st, folder, content, eventTime, n) ==
    IF n = 0 THEN st
    ELSE emitChange(fileListener(st, folder, content, eventTime), folder,
                    content, eventTime, n - 1)

\* The options checkChanged hands to runAll.
runOptions(opts, changed) ==
    [opts EXCEPT !.excludeFolders = <<>>, !.includeFolders = <<>>,
                 !.here = TRUE, !.folders = changed]

----------------------------------------------------------------------------
(* watchAll: the polling loop *)

\* The activities of the polling loop: a call of putHandlers, of
\* checkChanged or of runAll that has not completed, a timeout(2500) that
\* has not fired.
Activities == {"putHandlers", "checkChanged", "runAll", "timeout"}

NoTasks == [a \in Activities |-> 0]

\* One more activity a is pending.
start(t, a) == [t EXCEPT ![a] = @ + 1]

\* One activity a completed.
finish(t, a) == [t EXCEPT ![a] = @ - 1]

\* The body of checkChanged, started eagerly with the next rescan as well.
checkChanged_Unchained(t, changed) ==
    start(start(finish(t, "checkChanged"),
                IF changed = <<>> THEN "timeout" ELSE "runAll"), "putHandlers")

\* The body of checkChanged: p is timeout(2500) or runAll(...); putHandlers
\* and the next checkChanged are chained on p and start when it resolves.
checkChanged(t, changed) ==
    start(finish(t, "checkChanged"),
          IF changed = <<>> THEN "timeout" ELSE "runAll")

\* p.then(putHandlers): p resolved.
thenPutHandlers(t, p) == start(finish(t, p), "putHandlers")

\* No run in progress. A run holds copy, the list changedFolders.concat([])
\* handed to runAll, and folders, the list runAll's getFoldersToRun made of it.
NoRun == [copy |-> <<>>, folders |-> <<>>, results |-> <<>>, rewrote |-> FALSE]

\* The value firstRun has when getFoldersToRun tests it.
firstRunAtTest(opts) == IF opts.onlyWorkspaces THEN FALSE ELSE firstRun

\* The frame of the watch actions: runAll's own variables, the command, and
\* the parts of the tree that watch mode does not touch.
RunFrame ==
    /\ UNCHANGED cmdVars
    /\ UNCHANGED <<options, folders, stderrText, phase, items, total,
                   concurrency, results, queueState, calls, settleOrder,
                   microtasks, idx, fails, removals, lockFiles, returned,
                   marked, workspaces, discovered, statFails, readdirFails>>

WatchFrame == RunFrame /\ UNCHANGED proc

\* putHandlers: at start-up and after every cycle; checkChanged follows.
PutHandlers ==
    /\ Running
    /\ wphase \in {"startup", "rescan"} /\ tasks["putHandlers"] > 0
    /\ LET list == getFoldersToRun(options, firstRunAtTest(options), marked,
                                   workspaces).value
           st == putHandlers([changed |-> changedFolders,
                              hashes |-> watchedFilesHashes,
                              watched |-> watchedFiles,
                              listeners |-> listeners], list)
       IN /\ changedFolders' = st.changed
          /\ watchedFilesHashes' = st.hashes
          /\ watchedFiles' = st.watched
          /\ listeners' = st.listeners
    /\ firstRun' = firstRunAtTest(options)
    /\ wphase' = "check"
    /\ tasks' = start(finish(tasks, "putHandlers"), "checkChanged")
    /\ UNCHANGED <<disk, dirty, watchLock, cachedHashes, now, run, lastRun,
                   writes, restarts>>
    /\ WatchFrame

\* checkChanged: wait 2500 ms when nothing changed, else call runAll on a
\* copy of changedFolders; runAll starts with getFoldersToRun.
CheckChanged ==
    /\ Running
    /\ wphase = "check" /\ tasks["checkChanged"] > 0
    /\ tasks' = checkChanged(tasks, changedFolders)
    /\ IF changedFolders = <<>>
       THEN /\ wphase' = "sleeping"
            /\ UNCHANGED <<run, firstRun>>
       ELSE /\ wphase' = "running"
            /\ run' = [copy |-> changedFolders,
                       folders |->
                          getFoldersToRun(runOptions(options, changedFolders),
                                          firstRunAtTest(options), marked,
                                          workspaces).value,
                       results |-> <<>>,
                       rewrote |-> FALSE]
            /\ firstRun' = firstRunAtTest(options)
    /\ UNCHANGED <<disk, dirty, watchedFilesHashes, watchedFiles, changedFolders,
                   watchLock, cachedHashes, now, lastRun, writes, restarts,
                   listeners>>
    /\ WatchFrame

\* timeout(2500) is over.
Timeout ==
    /\ Running
    /\ wphase = "sleeping" /\ tasks["timeout"] > 0
    /\ wphase' = "rescan"
    /\ tasks' = thenPutHandlers(tasks, "timeout")
    /\ UNCHANGED <<disk, dirty, watchedFilesHashes, watchedFiles, changedFolders,
                   watchLock, cachedHashes, now, run, lastRun, writes, restarts,
                   firstRun, listeners>>
    /\ WatchFrame

\* The folder whose task is in progress (the default concurrency is 1).
CurrentFolder == run.folders[Len(run.results) + 1]

\* The package manager at work in the current folder rewrites the watched
\* file (yarn.lock), once.
Rewrite(c) ==
    /\ Running
    /\ wphase = "running" /\ Len(run.results) < Len(run.folders)
    /\ CurrentFolder \in marked
    /\ ~run.rewrote
    /\ writes < MaxWrites
    /\ c # disk[CurrentFolder]
    /\ disk' = [disk EXCEPT ![CurrentFolder] = c]
    /\ dirty' = IF listeners[CurrentFolder] > 0
                THEN dirty \cup {CurrentFolder} ELSE dirty
    /\ run' = [run EXCEPT !.rewrote = TRUE]
    /\ writes' = writes + 1
    /\ UNCHANGED <<watchedFilesHashes, watchedFiles, changedFolders, watchLock,
                   cachedHashes, now, wphase, lastRun, restarts, firstRun,
                   listeners, tasks>>
    /\ WatchFrame

\* The task of the current folder ends. outcome: "ok" (first attempt exits
\* with 0), "retried" (first attempt fails, the retry succeeds), "failed",
\* "threw" (package.json is not JSON: readManifest throws in the callback of
\* fs.readFile, an uncaught exception). A folder without package.json gets an
\* error result and no process. spawnRun's then sets watchLock[folder].
FolderDone(outcome) ==
    /\ Running
    /\ wphase = "running" /\ Len(run.results) < Len(run.folders)
    /\ IF CurrentFolder \notin marked
       THEN /\ outcome = "failed"
            /\ run' = [run EXCEPT !.results =
                          Append(@, [folder |-> CurrentFolder,
                                     code |-> "undefined", final |-> "failed"])]
            /\ UNCHANGED <<watchLock, lastRun, proc>>
       ELSE IF outcome = "threw"
       THEN /\ proc' = "crashed"
            /\ UNCHANGED <<run, watchLock, lastRun>>
       ELSE /\ run' = [run EXCEPT
                          !.results =
                              Append(@, [folder |-> CurrentFolder,
                                         code |-> IF outcome = "ok" THEN "0" ELSE "1",
                                         final |-> IF outcome = "failed"
                                                   THEN "failed" ELSE "ok"]),
                          !.rewrote = FALSE]
            /\ watchLock' = [watchLock EXCEPT ![CurrentFolder] = now]
            /\ lastRun' = [lastRun EXCEPT ![CurrentFolder] =
                              IF @ = "racing" THEN "modified" ELSE outcome]
            /\ UNCHANGED proc
    /\ UNCHANGED <<disk, dirty, watchedFilesHashes, watchedFiles, changedFolders,
                   cachedHashes, now, wphase, writes, restarts, firstRun,
                   listeners, tasks>>
    /\ RunFrame

\* results.filter(result => result.code === 0).map(... writeFile(
\* getWatchedFileCachedHashPath(file), watchedFilesHashes[file])); results are
\* those of the first attempts.
persistHashes(cached, res, hashes) ==
    [ d \in DOMAIN cached |->
        IF \E i \in 1..Len(res) : res[i].folder = d /\ res[i].code = "0"
        THEN hashes[d] ELSE cached[d] ]

\* runAll resolved: the then of checkChanged empties changedFolders and
\* persists the hashes; putHandlers follows.
RunThen ==
    /\ Running
    /\ wphase = "running" /\ Len(run.results) = Len(run.folders)
    /\ tasks["runAll"] > 0
    /\ changedFolders' = <<>>
    /\ cachedHashes' = persistHashes(cachedHashes, run.results, watchedFilesHashes)
    /\ run' = NoRun
    /\ wphase' = "rescan"
    /\ tasks' = thenPutHandlers(tasks, "runAll")
    /\ UNCHANGED <<disk, dirty, watchedFilesHashes, watchedFiles, watchLock, now,
                   lastRun, writes, restarts, firstRun, listeners>>
    /\ WatchFrame

\* The poll of fs.watchFile noticed the change of the watched file of f: its
\* listeners run.
FileEvent(f) ==
    /\ Running
    /\ f \in dirty /\ listeners[f] > 0
    /\ LET st == emitChange([changed |-> changedFolders,
                             hashes |-> watchedFilesHashes,
                             watched |-> watchedFiles,
                             lock |-> watchLock,
                             listeners |-> listeners], f, options.content, now,
                            listeners[f])
       IN /\ changedFolders' = st.changed
          /\ watchedFilesHashes' = st.hashes
          /\ watchedFiles' = st.watched
          /\ watchLock' = st.lock
          /\ listeners' = st.listeners
    /\ dirty' = dirty \ {f}
    /\ UNCHANGED <<disk, cachedHashes, now, wphase, run, lastRun, writes,
                   restarts, firstRun, tasks>>
    /\ WatchFrame

\* Somebody modifies the watched file of a package folder, or deletes it
\* (content ""), while the process watches.
FileWritten(f, c) ==
    /\ Running
    /\ writes < MaxWrites
    /\ f \in marked /\ c # disk[f]
    /\ disk' = [disk EXCEPT ![f] = c]
    /\ dirty' = IF listeners[f] > 0 THEN dirty \cup {f} ELSE dirty
    /\ lastRun' = [lastRun EXCEPT ![f] =
                      IF wphase = "running"
                         /\ \E i \in (Len(run.results) + 1)..Len(run.folders) :
                               run.folders[i] = f
                      THEN "racing" ELSE "modified"]
    /\ writes' = writes + 1
    /\ UNCHANGED <<watchedFilesHashes, watchedFiles, changedFolders, watchLock,
                   cachedHashes, now, wphase, run, restarts, firstRun,
                   listeners, tasks>>
    /\ WatchFrame

\* A debounce window passes.
Tick ==
    /\ Running
    /\ now < MaxTime
    /\ now' = now + 1
    /\ UNCHANGED <<disk, dirty, watchedFilesHashes, watchedFiles, changedFolders,
                   watchLock, cachedHashes, wphase, run, lastRun, writes,
                   restarts, firstRun, listeners, tasks>>
    /\ WatchFrame

\* The watching process is stopped between two cycles and started again: the
\* files on disk stay, everything in memory starts afresh.
Restart ==
    /\ Running
    /\ restarts < MaxRestarts
    /\ wphase = "sleeping"
    /\ restarts' = restarts + 1
    /\ wphase' = "startup"
    /\ tasks' = start(NoTasks, "putHandlers")
    /\ dirty' = {}
    /\ watchedFilesHashes' = [d \in Dirs |-> ""]
    /\ watchedFiles' = {}
    /\ listeners' = [d \in Dirs |-> 0]
    /\ changedFolders' = <<>>
    /\ watchLock' = [d \in Dirs |-> 0]
    /\ firstRun' = TRUE
    /\ UNCHANGED <<disk, cachedHashes, now, run, lastRun, writes>>
    /\ WatchFrame

\* Content and non-content watching of a plain tree, non-content watching
\* of a tree of workspaces.
WatchOptions ==
    { o \in [ npm : {FALSE},
              dotFolders : {FALSE},
              modulesFolder : {""},
              excludeFolders : {<<>>},
              includeFolders : {<<>>},
              folders : {"undefined"},
              onlyWorkspaces : BOOLEAN,
              here : {FALSE},
              content : BOOLEAN ] : ~(o.onlyWorkspaces /\ o.content) }

WatchInit ==
    /\ options \in WatchOptions
    /\ marked = IF options.onlyWorkspaces
                THEN {Root, <<"a", "/", "b">>}
                ELSE {<<"a">>, <<"a", "/", "b">>}
    /\ workspaces = IF options.onlyWorkspaces
                    THEN << <<"a", "/", "*">> >> ELSE <<>>
    /\ disk = [d \in Dirs |-> IF d \in marked THEN "h1" ELSE ""]
    /\ dirty = {}
    /\ watchedFilesHashes = [d \in Dirs |-> ""]
    /\ watchedFiles = {}
    /\ listeners = [d \in Dirs |-> 0]
    /\ changedFolders = <<>>
    /\ watchLock = [d \in Dirs |-> 0]
    /\ cachedHashes = [d \in Dirs |-> ""]
    /\ now = 1
    /\ wphase = "startup"
    /\ tasks = start(NoTasks, "putHandlers")
    /\ run = NoRun
    /\ lastRun = [d \in Dirs |-> "none"]
    /\ writes = 0
    /\ restarts = 0
    /\ firstRun = TRUE
    /\ discovered = <<>>
    /\ statFails = {}
    /\ readdirFails = {}
    /\ folders = <<>>
    /\ RunIdle
    /\ CommandIdle

WatchNext ==
    \/ PutHandlers
    \/ CheckChanged
    \/ Timeout
    \/ \E c \in Contents : Rewrite(c)
    \/ \E outcome \in {"ok", "retried", "failed", "threw"} : FolderDone(outcome)
    \/ RunThen
    \/ \E f \in Dirs : FileEvent(f)
    \/ \E f \in Dirs, c \in Contents \cup {""} : FileWritten(f, c)
    \/ Tick
    \/ Restart

WatchSpec == WatchInit /\ [][WatchNext]_vars

----------------------------------------------------------------------------
(* Vocabulary of the properties *)

FirstPass == { k \in 1..Len(calls) : calls[k].pass = "first" }
Retries == { k \in 1..Len(calls) : calls[k].pass = "retry" }

\* Producer calls of the queue started and not yet settled.
InFlightFirst == { k \in FirstPass : InFlight(calls[k]) }
InFlightRetries == { k \in Retries : InFlight(calls[k]) }

\* First-pass calls in the order their promises resolved.
FirstSettled == SelectSeq(settleOrder, LAMBDA k : calls[k].pass = "first")

\* Retry calls of the result at position i of the result list.
RetriesOf(i) == { k \in Retries : calls[k].item = i }

RunsOf(f) == Cardinality({ k \in 1..Len(calls) : calls[k].folder = f })

IsDuplicateFree(list) ==
    \A i, j \in 1..Len(list) : i # j => list[i] # list[j]

\* A failed attempt: an error text or a non-zero exit code.
FailedAttempt(r) == r.error # <<>> \/ r.code = "1"
\* A successful attempt: no error, exit code 0.
SucceededAttempt(r) == r.error = <<>> /\ r.code = "0"

\* The aggregation loop has passed result i.
Passed(i) == i < idx

----------------------------------------------------------------------------
(* C1 *)

\* C1: at every moment of a queue() execution, the number of producer calls
\* started and not yet settled is at most min(C, N), for the configured
\* concurrency C and the list length N.
C1_InFlightAtMostMin ==
    Cardinality(InFlightFirst) <= Min(options.concurrency, Len(folders))

\* A third item was handed out after a completion while the limit of two is
\* in use.
C1_Witness ==
    /\ Len(folders) = 3 /\ options.concurrency = 2
    /\ Len(results) >= 1
    /\ Cardinality(InFlightFirst) = 2

(* C2 *)

\* C2: when queue() resolves, each of the N items was handed to the producer
\* exactly once, the result list holds N results, one per producer call, and
\* no producer call is in flight.
C2_ResolvedMeansAllDone ==
    queueState = "resolved" =>
        /\ Len(results) = Len(folders)
        /\ Cardinality(FirstPass) = Len(folders)
        /\ \A i \in 1..Len(folders) :
              \E k \in FirstPass :
                  calls[k].item = i /\ calls[k].folder = folders[i]
        /\ \A k \in FirstPass : calls[k].st = "settled"
        /\ Len(FirstSettled) = Len(results)
        /\ InFlightFirst = {}

C2_Witness ==
    /\ queueState = "resolved"
    /\ Len(folders) = 3 /\ options.concurrency = 2

(* C3 *)

\* C3: for every list of N >= 0 items, if every producer call resolves then
\* queue() resolves and runAll goes on to its aggregation and lock removal.
\* As a property of finished runs: when node ends because nothing is left to
\* wait for, with every producer call resolved, runAll has reached its end.
C3_QueueResolvesWhenProducersDo ==
    (proc = "exit0" /\ \A k \in 1..Len(calls) : calls[k].st = "settled")
        => phase = "done"

(* C4 *)

\* C4: the result list is in completion order: the result of a producer call
\* that settled earlier precedes the result of one that settled later,
\* whatever their submission order.
C4_ResultsInCompletionOrder ==
    /\ Len(results) <= Len(FirstSettled)
    /\ \A i \in 1..Len(results) : results[i] = calls[FirstSettled[i]].result

\* Two results are in the list in the reverse of their submission order.
C4_Witness ==
    /\ Len(results) >= 2
    /\ Len(results) <= Len(FirstSettled)
    /\ \E i, j \in 1..Len(results) :
          /\ i < j
          /\ calls[FirstSettled[i]].item > calls[FirstSettled[j]].item
          /\ results[i] # results[j]

(* C5 *)

\* C5: without fail-fast, a first attempt that failed (error text or non-zero
\* exit code) is retried exactly once by the time the aggregation loop has
\* passed it and never more than once; no folder of a duplicate-free list is
\* passed to runOne more than twice; a retry that failed is in fails and is
\* not run again.
C5_FailedRetriedOnce ==
    ~options.failFast =>
        /\ \A i \in 1..Len(results) : Cardinality(RetriesOf(i)) <= 1
        /\ \A i \in 1..Len(results) :
              (Passed(i) /\ FailedAttempt(results[i]))
                  => /\ Cardinality(RetriesOf(i)) = 1
                     /\ \A k \in RetriesOf(i) :
                           /\ calls[k].folder = results[i].folder
                           /\ calls[k].st = "settled"
                           /\ FailedAttempt(calls[k].result)
                                 => \E j \in 1..Len(fails) :
                                        fails[j] = calls[k].result
        /\ IsDuplicateFree(folders)
              => \A i \in 1..Len(folders) : RunsOf(folders[i]) <= 2

\* Three folders were aggregated; an unreadable manifest and a failed process
\* were each retried and a retry failed again.
C5_Witness ==
    /\ ~options.failFast
    /\ Len(folders) = 3 /\ idx = 4
    /\ Cardinality(Retries) >= 2
    /\ \E i \in 1..Len(results) : results[i].code = "undefined"
    /\ \E i \in 1..Len(results) : results[i].code = "1"
    /\ fails # <<>>

(* C6 *)

\* C6: a first attempt that succeeded (no error, exit code 0) is never
\* retried, and a folder that is in the list once and succeeded first is
\* passed to runOne once only.
C6_SucceededNeverRetried ==
    \A i \in 1..Len(results) :
        SucceededAttempt(results[i]) =>
            /\ RetriesOf(i) = {}
            /\ Cardinality({ j \in 1..Len(folders) :
                                folders[j] = results[i].folder }) = 1
                  => RunsOf(results[i].folder) = 1

\* The run ended with one folder that succeeded first and another that was
\* retried.
C6_Witness ==
    /\ phase = "done"
    /\ \E i \in 1..Len(results) : SucceededAttempt(results[i])
    /\ Retries # {}

(* C7 *)

\* C7: no retry is in flight while a first-pass call of the queue is in
\* flight, at most one retry is in flight at any time, and every earlier
\* retry has resolved when a retry is in flight.
C7_RetriesSequential ==
    \A k \in InFlightRetries :
        /\ InFlightFirst = {}
        /\ \A j \in Retries : j # k => calls[j].st = "settled"
        /\ \A j \in Retries : j < k =>
              \A m \in 1..Len(microtasks) : microtasks[m].call # j

\* A second retry is running after the first one has resolved.
C7_Witness ==
    /\ Cardinality(Retries) = 2
    /\ Cardinality(InFlightRetries) = 1
    /\ Len(results) = 3

(* C8 *)

C8_Visible(text) == SelectSeq(text, LAMBDA t : t # "ESC")

\* Positions of the text at which the cache folder path and a separator are.
C8_Mentions(text) ==
    { p \in 1..(Len(text) - 1) : text[p] = "CF" /\ text[p + 1] = "/" }

C8_SegmentChar(text, q) == q <= Len(text) /\ text[q] \notin {"/", " ", "\""}

C8_FirstMention(text) ==
    CHOOSE p \in C8_Mentions(text) : \A q \in C8_Mentions(text) : p <= q

\* The first mention of the cache folder is followed by a sub-path.
C8_FirstHasSubPath(text) ==
    /\ C8_Mentions(C8_Visible(text)) # {}
    /\ C8_SegmentChar(C8_Visible(text), C8_FirstMention(C8_Visible(text)) + 2)

\* The cache folder and the first segment of that sub-path.
C8_SubDir(text) ==
    LET v == C8_Visible(text)
        p == C8_FirstMention(v)
        e == CHOOSE q \in (p + 2)..Len(v) :
                 /\ \A j \in (p + 2)..q : C8_SegmentChar(v, j)
                 /\ ~C8_SegmentChar(v, q + 1)
    IN  SubSeq(v, p, e)

\* C8 as stated: a first attempt that exited non-zero with the cache folder
\* path followed by a sub-path in its stderr has had that cache sub-directory
\* removed and has been re-run exactly once, in every run that has ended.
C8_CacheDirRemovedAndRerun ==
    (proc # "running" /\ IsDuplicateFree(folders)) =>
        \A k \in FirstPass :
            (calls[k].result.code = "1" /\ C8_FirstHasSubPath(stderrText)) =>
                /\ Cardinality({ j \in Retries :
                                    calls[j].folder = calls[k].folder }) = 1
                /\ \E m \in 1..Len(removals) :
                      removals[m].dir = C8_SubDir(stderrText)

\* C8 (amended): without fail-fast, when a first attempt exited non-zero and
\* the first mention of the cache folder path in its stderr (ANSI sequences
\* stripped) is followed by a sub-path, the removal of the cache folder's
\* sub-directory named by the first segment of that sub-path was issued and
\* has ended (done, or failed and logged) before the retry of that result was
\* started; the result is retried at most once, and exactly once when the
\* aggregation loop has passed it.
C8_RemovalEndsBeforeRetry ==
    ~options.failFast =>
        \A i \in 1..Len(results) :
            (results[i].code = "1" /\ C8_FirstHasSubPath(stderrText)) =>
                /\ Cardinality(RetriesOf(i)) <= 1
                /\ Passed(i) => Cardinality(RetriesOf(i)) = 1
                /\ \A k \in RetriesOf(i) :
                      \E m \in 1..Len(removals) :
                          /\ removals[m].idx = i
                          /\ removals[m].dir = C8_SubDir(stderrText)
                          /\ removals[m].state \in {"removed", "failed"}
                          /\ removals[m].calls < k

\* pkg exited with code 1 and the cache path in stderr; its cache
\* sub-directory was removed and its retry has then run.
C8_Witness ==
    /\ ~options.failFast
    /\ C8_FirstHasSubPath(stderrText)
    /\ \E i \in 1..Len(results) :
          /\ results[i].code = "1"
          /\ Passed(i)
          /\ \E k \in RetriesOf(i) : calls[k].st = "settled"
          /\ \E m \in 1..Len(removals) :
                removals[m].idx = i /\ removals[m].state = "removed"

(* C9 *)

\* C9: with fail-fast, every failing outcome of a folder task (non-zero exit
\* code, spawn error, or a RunResult carrying an error such as an unreadable
\* manifest) ends the process with status 1 before aggregation, so that no
\* retry is ever started.
C9_FailFastEndsOnEveryFailure ==
    options.failFast =>
        /\ Retries = {}
        /\ \A k \in 1..Len(calls) :
              FailedAttempt(calls[k].result) => (proc = "exit1" /\ phase = "queue")

(* C10 *)

\* C10: without fail-fast, whatever per-folder failures occur (unreadable or
\* invalid manifest, spawn error, non-zero exit), every folder of the list is
\* attempted in the first pass and its task completes: when the process has
\* ended and no task was left pending by a rejected collaborator step, every
\* item was handed to the producer and its call resolved.
C10_SiblingsStillRun ==
    (/\ ~options.failFast
     /\ proc # "running"
     /\ \A k \in 1..Len(calls) : calls[k].st # "stuck")
        => \A i \in 1..Len(folders) :
              \E k \in FirstPass : calls[k].item = i /\ calls[k].st = "settled"

(* C11 *)

\* The calls whose package.json could not be used: the read was rejected, or
\* the text read was not JSON.
C11_ManifestFailed ==
    { k \in 1..Len(calls) :
        calls[k].st = "threw" \/ calls[k].result.error = <<"ENOENT">> }

\* C11: when a folder's package.json cannot be read or is not valid JSON,
\* runOne resolves for that folder with a RunResult that carries an error text
\* and no exit code, and no package-manager process is started for it.
C11_ManifestFailureResolves ==
    \A k \in C11_ManifestFailed :
        /\ calls[k].st = "settled"
        /\ calls[k].result.error # NoText
        /\ calls[k].result.code = "undefined"

(* C12 *)

\* The first-pass calls whose result was retried by the aggregation loop.
C12_Retried ==
    { k \in FirstPass :
        \E i \in 1..Len(FirstSettled) : FirstSettled[i] = k /\ RetriesOf(i) # {} }

\* A folder's final attempt: its retry, or its first attempt when no retry
\* was made.
C12_FinalAttempts == Retries \cup (FirstPass \ C12_Retried)

C12_SomeFinalAttemptFailed ==
    \E k \in C12_FinalAttempts : FailedAttempt(calls[k].result)

\* runAll has decided not to end the process: the aggregation is over and the
\* lock file is being removed, or runAll has resolved.
C12_NotExited == proc = "running" /\ phase \in {"unlock", "done"}

C13_FoldersOf(list) == { list[i].folder : i \in 1..Len(list) }

C13_FinalFailureFolders ==
    { calls[k].folder : k \in { j \in C12_FinalAttempts :
                                   FailedAttempt(calls[j].result) } }

\* C13 as stated: with no-exit-on-error, the value runAll resolves to is the
\* list of final failures: a folder is in it exactly when its final attempt
\* failed.
C13_ResolvesToFinalFailures ==
    (phase = "done" /\ options.noExitOnError) =>
        C13_FoldersOf(returned) = C13_FinalFailureFolders

\* C13, amended: whenever runAll resolves, its value is the list the queue
\* resolved with: one RunResult per folder of the list, in completion order,
\* each the result of that folder's first attempt, whether it failed or not
\* and whatever its retry gave.
C13_ResolvesToFirstPassResults ==
    phase = "done" =>
        /\ Len(returned) = Len(folders)
        /\ Len(FirstSettled) = Len(folders)
        /\ \A i \in 1..Len(returned) :
              returned[i] = calls[FirstSettled[i]].result

\* runAll resolved with no-exit-on-error; its value holds a success, a first
\* failure whose retry succeeded, and a first failure whose retry failed.
C13_Witness ==
    /\ phase = "done" /\ options.noExitOnError
    /\ \E i \in 1..Len(returned) : SucceededAttempt(returned[i])
    /\ \E i \in 1..Len(returned) :
          /\ FailedAttempt(returned[i])
          /\ \E k \in RetriesOf(i) : SucceededAttempt(calls[k].result)
    /\ \E i \in 1..Len(returned) :
          /\ FailedAttempt(returned[i])
          /\ \E k \in RetriesOf(i) : FailedAttempt(calls[k].result)

(* C14 *)

\* A lock file is configured: options.lock is a string.
C14_LockConfigured == options.lock # "undefined"

\* runAll went through its whole aggregation without fail-fast: it ended the
\* process in its report step, or it resolved.
C14_RunAllOver ==
    /\ ~options.failFast
    /\ \/ proc = "exit1" /\ phase = "loop"
       \/ phase = "done"

\* C14: with a lock file configured, after a runAll call that did not end
\* through fail-fast no lock file is on disk, also when some folders failed
\* in their final attempt.
C14_NoLockFileLeft ==
    (C14_LockConfigured /\ C14_RunAllOver) => lockFiles = {}

(* C15 *)

\* The lock file of this run, where writeLockFile puts it.
C15_LockPath ==
    <<options.cwd, IF options.lock = "" THEN defaultLockfile ELSE options.lock>>

\* C15: with a lock file configured, the lock file is on disk at every moment
\* at which a package-manager process started by this runAll call, in the
\* first pass or as a retry, is running.
C15_LockedWhileProcessesRun ==
    C14_LockConfigured =>
        \A k \in 1..Len(calls) :
            calls[k].st = "running" => C15_LockPath \in lockFiles

\* A retry's process is running after a first-pass process of another folder
\* has ended, and the lock file is there.
C15_Witness ==
    /\ C14_LockConfigured
    /\ C15_LockPath \in lockFiles
    /\ \E k \in Retries : calls[k].st = "running"
    /\ \E k \in FirstPass : SucceededAttempt(calls[k].result)

(* C16 *)

\* The calls of getFoldersToRun that scanned the tree.
C16_Scans == { n \in 1..Len(discovered) : discovered[n].scanned }

\* A hidden folder: its name starts with a dot. The working directory '.'
\* itself is not one.
C16_Hidden(folder) == folder # Root /\ startsWithDot(basename(folder))

\* C16: folder discovery returns no folder whose name is the modules folder
\* name, and no folder whose name starts with a dot unless dot-folders is
\* enabled or include-folders names that folder.
C16_NoModulesNoHiddenFolders ==
    \A n \in C16_Scans :
        \A i \in 1..Len(discovered[n].value) :
            LET folder == discovered[n].value[i]
            IN /\ basename(folder) # modulesFolder(options)
               /\ C16_Hidden(folder) =>
                     (options.dotFolders \/ includes(options.includeFolders, folder))

\* Packages in .h and in node_modules, dot-folders off, include-folders
\* naming .h: the scan returned .h, and other folders, but not node_modules.
C16_Witness ==
    /\ ~options.dotFolders
    /\ {<<".h">>, <<"node_modules">>, <<"a">>} \subseteq marked
    /\ \E n \in C16_Scans :
          /\ includes(discovered[n].value, <<".h">>)
          /\ includes(discovered[n].value, <<"a">>)
          /\ ~includes(discovered[n].value, <<"node_modules">>)

(* C17 *)

\* An exclude-folders entry without its trailing separator.
C17_Entry(e) ==
    IF Len(e) > 1 /\ e[Len(e)] = sep THEN SubSeq(e, 1, Len(e) - 1) ELSE e

\* folder is the folder e or is nested under it.
C17_Under(folder, e) ==
    \/ folder = e
    \/ /\ Len(folder) > Len(e)
       /\ SubSeq(folder, 1, Len(e) + 1) = e \o <<sep>>

C17_ExcludedByPrefix(folder) ==
    \E i \in 1..Len(options.excludeFolders) :
        C17_Under(folder, C17_Entry(options.excludeFolders[i]))

\* What the same scan finds when exclude-folders is empty.
C17_Unfiltered ==
    findAllFolders(IF options.folders = "undefined" THEN <<Root>> ELSE options.folders,
                   [options EXCEPT !.excludeFolders = <<>>], marked)

\* C17: exclusion is by path prefix: the scan returns what it would return
\* without exclude-folders, less the folders that are an exclude-folders
\* entry (written with or without a trailing separator) or nested under one;
\* a/bc is not removed by the entry a/b.
C17_ExcludeByPrefix ==
    \A n \in C16_Scans :
        ~options.onlyWorkspaces =>
            discovered[n].value =
                SelectSeq(C17_Unfiltered, LAMBDA f : ~C17_ExcludedByPrefix(f))

(* C18 *)

\* C18: every folder of include-folders is in the list getFoldersToRun
\* returns, whatever the exclusion rules, the hidden-folder policy and the
\* tree.
C18_IncludeFoldersPresent ==
    \A n \in 1..Len(discovered) :
        \A i \in 1..Len(options.includeFolders) :
            includes(discovered[n].value, options.includeFolders[i])

(* C19 *)

\* C19: the list folder discovery returns holds no folder twice, also when
\* the roots overlap or repeat.
C19_NoFolderTwice ==
    \A n \in C16_Scans : IsDuplicateFree(discovered[n].value)

(* C20 *)

\* C20: in workspace-only mode the first getFoldersToRun call of the process
\* returns exactly '.' and scans nothing; later calls scan.
C20_FirstCallRootOnly ==
    (options.onlyWorkspaces /\ discovered # <<>>) =>
        /\ discovered[1] = [value |-> <<Root>>, scanned |-> FALSE]
        /\ \A n \in 2..Len(discovered) : discovered[n].scanned

(* C30 *)

\* C30: when the removal of a detected cache sub-directory fails during the
\* aggregation, the aggregation is not aborted: the folder concerned is
\* still retried, and every later failed result that the loop has passed was
\* retried too.
C30_RemovalFailureNotFatal ==
    \A m \in 1..Len(removals) :
        removals[m].state = "failed" =>
            /\ phase # "rejected"
            /\ RetriesOf(removals[m].idx) # {}
            /\ \A j \in 1..Len(results) :
                  (j > removals[m].idx /\ Passed(j) /\ FailedAttempt(results[j]))
                      => \E k \in RetriesOf(j) : calls[k].st = "settled"

\* A removal failed for one result; that result and a later failed result
\* were both retried, and the loop is over.
C30_Witness ==
    /\ idx > Len(results)
    /\ \E m \in 1..Len(removals) :
          /\ removals[m].state = "failed"
          /\ \E k \in RetriesOf(removals[m].idx) : calls[k].st = "settled"
          /\ \E j \in 1..Len(results) :
                /\ j > removals[m].idx
                /\ FailedAttempt(results[j])
                /\ \E k \in RetriesOf(j) : calls[k].st = "settled"

(* C27 *)

\* The roots of the scan: options.folders || '.'
C27_Roots == IF options.folders = "undefined" THEN <<Root>> ELSE options.folders

C27_MatchesWorkspace(folder) ==
    \E i \in 1..Len(workspaces) : minimatch(folder, workspaces[i])

\* C27: in workspace-only mode the result is '.' followed by every
\* discovered folder that matches a glob of the root manifest's workspaces
\* field; no matching discovered folder is left out, also when the root holds
\* no marker file.
C27_WorkspacesAllKept ==
    options.onlyWorkspaces =>
        \A n \in C16_Scans :
            LET all == findAllFolders(C27_Roots, options, marked)
            IN /\ discovered[n].value # <<>>
               /\ discovered[n].value[1] = Root
               /\ \A i \in 1..Len(all) :
                     C27_MatchesWorkspace(all[i]) => includes(discovered[n].value, all[i])

(* C28 *)

\* folder is nested inside parent.
C28_Inside(folder, parent) ==
    /\ folder # parent
    /\ parent = Root \/ C17_Under(folder, parent)

\* The list is in the order of the sort keys: separators first, then length.
C28_InKeyOrder(list) ==
    \A i, j \in 1..Len(list) :
        i < j =>
            \/ splitLength(list[i]) < splitLength(list[j])
            \/ /\ splitLength(list[i]) = splitLength(list[j])
               /\ length(list[i]) <= length(list[j])

C29_Chain(folder, root) ==
    IF folder = root THEN {root}
    ELSE IF root = Root \/ C17_Under(folder, root)
         THEN { p \in Dirs : (p = root \/ root = Root \/ C17_Under(p, root))
                             /\ (p = Root \/ C17_Under(folder, p)) }
         ELSE {}

\* folder holds the marker file and can be reached from a root through
\* directories that readdir can read and that are not excluded.
C29_Reachable(folder) ==
    /\ folder \in marked
    /\ \E r \in 1..Len(C27_Roots) :
          LET chain == C29_Chain(folder, C27_Roots[r])
          IN /\ chain # {}
             /\ \A p \in chain :
                   /\ p \notin readdirFails
                   /\ p = Root \/ ~isExcluded(p, options)

\* C29: folder discovery does not fail when stat or readdir fails on entries
\* of the tree: findAllFolders resolves with a list, and the list holds
\* exactly the marker-containing folders that can be reached through
\* readable, non-excluded directories.
C29_DiscoverySurvivesFaults ==
    \A n \in C16_Scans :
        /\ discovered[n].value \in Seq(Dirs)
        /\ { discovered[n].value[i] : i \in 1..Len(discovered[n].value) }
              = { d \in Dirs : C29_Reachable(d) }

\* stat fails on a and on a/package.json, readdir fails on a/b; the scan
\* still returned a and a/bc, and not a/b.
C29_Witness ==
    /\ {<<"a">>, <<"a", "/", "package.json">>} \subseteq statFails
    /\ <<"a", "/", "b">> \in readdirFails
    /\ {<<"a">>, <<"a", "/", "b">>, <<"a", "/", "bc">>} \subseteq marked
    /\ \E n \in C16_Scans :
          /\ includes(discovered[n].value, <<"a">>)
          /\ includes(discovered[n].value, <<"a", "/", "bc">>)
          /\ ~includes(discovered[n].value, <<"a", "/", "b">>)

(* C26 *)

\* The command line the claim gives folder f when no command was given:
\* add and the folder's own addresses when a force option finds such
\* dependencies in its manifest, the empty command otherwise.
C26_OwnArgs(f) ==
    LET local == IF options.forceLocal /\ manifests[f].local
                 THEN << <<"local", f>> >> ELSE <<>>
        remote == IF options.forceRemote /\ manifests[f].remote
                  THEN << <<"remote", f>> >> ELSE <<>>
    IN IF local \o remote # <<>> THEN <<"add">> \o local \o remote ELSE <<"">>

\* C26: with no explicit command and force-local or force-remote set, the
\* command run in a folder depends on the configuration and the folder's own
\* manifest only, whatever folders were processed before it.
C26_CommandFromOwnManifest ==
    runCommand = "" =>
        \A i \in 1..Len(spawned) : spawned[i].args = C26_OwnArgs(spawned[i].folder)

(* C21 *)

\* The step by which a coordinated run of watch mode ends: runAll resolved
\* and checkChanged's then has run.
C21_RunEnds == wphase = "running" /\ wphase' = "rescan"

\* C21: a folder whose watched file somebody modified, and that the file's
\* change notification added to the changed set while a coordinated run was
\* in progress, is still in the changed set when that run is over, for the
\* next cycle to run it.
C21_MidRunChangeKept ==
    [][ C21_RunEnds =>
            \A i \in 1..Len(changedFolders) :
                (i > Len(run.copy) /\ lastRun[changedFolders[i]] = "modified")
                    => includes(changedFolders', changedFolders[i]) ]_vars

(* C22 *)

\* The listener of the watched file of f runs in this step, within one
\* debounce window of the end of f's last run, and can read the file.
C22_DebouncedEvent(f) ==
    /\ f \in dirty /\ f \notin dirty' /\ restarts' = restarts
    /\ watchLock[f] # 0 /\ watchLock[f] = now
    /\ disk[f] # ""

\* C22: in content and in non-content watching alike, a file-change event
\* within the debounce window of the folder's last run does not add the
\* folder to the changed set; it only refreshes the stored hash.
C22_DebouncedEventOnlyRefreshes ==
    [][ \A f \in Dirs :
            C22_DebouncedEvent(f) =>
                /\ changedFolders' = changedFolders
                /\ watchedFilesHashes'[f] = disk[f] ]_vars

(* C23 *)

\* C23: each coordinated run of watch mode is made on exactly the folders of
\* the changed set at the start of the cycle, for every configuration.
C23_RunOnChangedFolders ==
    wphase = "running" => run.folders = run.copy

(* C24 *)

\* C24: when a coordinated run of watch mode is over, the hash of the watched
\* file is persisted for every folder whose final attempt succeeded (also on
\* the retry), and for no folder whose final attempt failed.
C24_PersistedIffSucceeded ==
    [][ C21_RunEnds =>
            \A i \in 1..Len(run.results) :
                LET r == run.results[i] IN
                /\ r.final = "ok" => cachedHashes'[r.folder] = watchedFilesHashes[r.folder]
                /\ r.final = "failed" => cachedHashes'[r.folder] = cachedHashes[r.folder]
      ]_vars

(* C25 *)

\* The start-up comparison of a restarted watching process.
C25_StartUpAfterRestart ==
    wphase = "startup" /\ restarts > 0 /\ wphase' = "check"

\* C25: a folder whose last run succeeded at its first attempt, and whose
\* watched file nobody modified during or after that run (the run itself may
\* have rewritten it), is not marked as changed by the start-up comparison
\* after a restart.
C25_NoRerunAfterRestart ==
    [][ C25_StartUpAfterRestart =>
            \A f \in Dirs :
                lastRun[f] = "ok" => ~includes(changedFolders', f) ]_vars

(* C31 *)

\* The listeners of the watched file of f run in this step and find the
\* file unreadable.
C31_UnreadableEvent(f) ==
    /\ f \in dirty /\ f \notin dirty' /\ restarts' = restarts
    /\ disk[f] = ""

\* A rescan (putHandlers) is made in this step.
C31_Rescan == wphase \in {"startup", "rescan"} /\ wphase' = "check"

\* C31: a file-change event that finds the watched file unreadable
\* deregisters the watch on the file, drops the file from the watched files
\* and from the stored hashes and does not add the folder to the changed set;
\* a rescan registers every readable file of a package folder.
C31_UnreadableFileDropped ==
    [][ /\ \A f \in Dirs :
              C31_UnreadableEvent(f) =>
                  /\ listeners'[f] = 0
                  /\ f \notin watchedFiles'
                  /\ watchedFilesHashes'[f] = ""
                  /\ changedFolders' = changedFolders
        /\ C31_Rescan =>
              \A f \in marked :
                  disk[f] # "" => (f \in watchedFiles' /\ listeners'[f] > 0)
      ]_vars

(* C32 *)

\* The listeners of the watched file of f run in this step, in content
\* watching, and can read the file.
C32_ContentEvent(f) ==
    /\ options.content
    /\ f \in dirty /\ f \notin dirty' /\ restarts' = restarts
    /\ disk[f] # ""

\* The event on f's file comes within the debounce window of f's last run.
C32_Debounced(f) == watchLock[f] # 0 /\ watchLock[f] = now

\* C32: in content watching, an event whose hash equals the stored hash of
\* the file leaves the changed set and the stored hash as they are; an event
\* whose hash differs, outside the debounce window, stores the new hash and
\* has the folder in the changed set.
C32_ContentEventByHash ==
    [][ \A f \in Dirs :
            C32_ContentEvent(f) =>
                /\ disk[f] = watchedFilesHashes[f] =>
                      /\ changedFolders' = changedFolders
                      /\ watchedFilesHashes'[f] = watchedFilesHashes[f]
                /\ (disk[f] # watchedFilesHashes[f] /\ ~C32_Debounced(f)) =>
                      /\ watchedFilesHashes'[f] = disk[f]
                      /\ includes(changedFolders', f)
      ]_vars

\* Content watching, between two cycles: an event stored the new hash of a
\* modified file and put its folder in the changed set.
C32_Witness ==
    /\ options.content /\ wphase = "sleeping"
    /\ \E f \in Dirs :
          /\ includes(changedFolders, f)
          /\ disk[f] = "h2" /\ watchedFilesHashes[f] = "h2"
          /\ dirty = {}

(* C33 *)

\* C33: the changed-folder collection of watch mode never holds a folder
\* twice, and neither does the list a coordinated run receives.
C33_ChangedFoldersDistinct ==
    wphase # "off" => (IsDuplicateFree(changedFolders) /\ IsDuplicateFree(run.copy))

(* C36 *)

\* C36: in watch mode at most one coordinated run is in progress, at most
\* one rescan, and never a rescan together with a run.
C36_OneRunOrRescan ==
    wphase # "off" =>
        /\ tasks["runAll"] <= 1
        /\ tasks["putHandlers"] <= 1
        /\ ~(tasks["runAll"] > 0 /\ tasks["putHandlers"] > 0)

\* A run is in progress and a listener has marked a folder since it began:
\* there is work for a second run, and none is started.
C36_Witness ==
    /\ wphase = "running" /\ tasks["runAll"] = 1
    /\ Len(changedFolders) > Len(run.copy)

(* C37 *)

\* C37: in watch mode without fail-fast, whatever the folders of a cycle
\* produce, the process is not ended, so that the polling loop goes on.
C37_LoopNeverStops ==
    wphase # "off" => proc = "running"

(* C34 *)

\* C34: no call runOne(command, options)(folder) is left pending for ever
\* by a collaborator step that fails: every call resolves with a RunResult.
C34_NoCallLeftPending ==
    \A k \in 1..Len(calls) : calls[k].st # "stuck"

(* C35 *)

\* dir is a path strictly inside the cache folder: the cache folder, a
\* separator and at least one name, none of them '.' or '..'.
C35_Inside(dir) ==
    /\ Len(dir) > Len(CacheFolder) + 1
    /\ SubSeq(dir, 1, Len(CacheFolder)) = CacheFolder
    /\ dir[Len(CacheFolder) + 1] = sep
    /\ \A i \in 1..Len(dir) : dir[i] \notin {".", ".."}

\* C35: every directory removal of the cache recovery targets a path
\* strictly inside the configured cache folder, for every error text; an
\* error text that yields no sub-path issues none.
C35_RemovalsInsideCache ==
    \A i \in 1..Len(removals) : C35_Inside(removals[i].dir)

(* C38 *)

\* The producer calls of the queue that are started and not settled.
C38_InFlight == { k \in FirstPass : InFlight(calls[k]) }

\* C38: the queue is work-conserving: between two turns of the event loop,
\* while an item has not been handed to the producer, exactly
\* min(concurrency, number of items) producer calls are in flight.
C38_WorkConserving ==
    (Idle /\ queueState = "pending" /\ items # <<>>) =>
        Cardinality(C38_InFlight) = Min(options.concurrency, Len(folders))

\* A call has settled and was replaced by the next item's call, and an item
\* is still left.
C38_Witness ==
    /\ Idle /\ queueState = "pending" /\ items # <<>>
    /\ results # <<>>
    /\ Cardinality(C38_InFlight) = Min(options.concurrency, Len(folders))

====
